---- MODULE Spec2Model ----
(***************************************************************************)
(* A model of civic_ingest: the site registry (sites.py), the listing      *)
(* extractor, PDF acquisition and metadata builder (sfbos_extractor.py),   *)
(* the record serialisation (models.py) and the commands (cli.py).         *)
(*                                                                         *)
(* Conventions.  A file name or a URL path segment is the sequence of its  *)
(* dot-separated parts (<<"minutes", "pdf">> is minutes.pdf); a URL is the *)
(* sequence of its slash-separated segments; a table row is the sequence   *)
(* of its td cells; a cell is its text and the hrefs of its anchors.       *)
(***************************************************************************)
EXTENDS Integers, Sequences, FiniteSets, TLC

VARIABLES
    page,       \* the listing page the site serves: [table, trs]
    cfg,        \* the FetchConfig of the call: [since_year, doc_type]
    listing,    \* outcome of fetch_listing: [status, out]
    gets,       \* number of HTTP GETs issued so far
    disk,       \* the files on disk: a set of [dir, name, body]
    dirs,       \* the directories that exist
    writes,     \* number of files opened for writing so far
    calls,      \* the download_pdf calls made so far, oldest first
    pdf,        \* the file extract_metadata is called on
    plumber,    \* whether pdfplumber can be imported
    rec,        \* the DocRecord at hand, None before there is one
    line,       \* the line to_jsonl_line returned, None before the call
    proc,       \* the running command: its arguments, position and locals
    outfile,    \* the lines of the JSONL output file, None while it does not exist
    runs        \* number of commands started so far

listingVars == <<page, cfg, listing>>

fsVars == <<disk, dirs, writes>>

metaVars == <<pdf, plumber, rec, line>>

cliVars == <<proc, outfile, runs>>

vars ==
    <<page, cfg, listing, gets, disk, dirs, writes, calls, pdf, plumber, rec, line,
      proc, outfile, runs>>

(***************************************************************************)
(* Bounds of the model.                                                    *)
(***************************************************************************)
MaxTrs == 3

MaxCalls == 3

MaxPages == 2

MaxStrLen == 2

MaxItems == 2

MaxListed == 2

MaxRuns == 3

(***************************************************************************)
(* Optional values: None, or Some(x).                                      *)
(***************************************************************************)
None == <<>>

Some(x) == <<x>>

(***************************************************************************)
(* Text helpers.                                                           *)
(***************************************************************************)
Last(s) == s[Len(s)]

Front(s) == SubSeq(s, 1, Len(s) - 1)

\* str.lower() on the words the model uses
Lower(w) ==
    CASE w = "PDF" -> "pdf"
      [] w = "Pdf" -> "pdf"
      [] w = "Minutes" -> "minutes"
      [] w = "MINUTES" -> "minutes"
      [] w = "Agenda" -> "agenda"
      [] OTHER -> w

\* re.compile(r"\.pdf$", re.I) on an href, name.lower().endswith(".pdf") on a name:
\* the last segment has a dot and its last part is "pdf" in any case
HasPdfSuffix(name) == Len(name) >= 2 /\ Lower(Last(name)) = "pdf"

(***************************************************************************)
(* Dates: datetime.strptime(text, "%B %d %Y").                             *)
(***************************************************************************)
MonthNames ==
    <<"January", "February", "March", "April", "May", "June", "July",
      "August", "September", "October", "November", "December">>

\* 0 when the word is no full month name
MonthNumber(word) ==
    IF \E k \in 1..12 : MonthNames[k] = word
    THEN CHOOSE k \in 1..12 : MonthNames[k] = word
    ELSE 0

IsLeap(y) == (y % 4 = 0 /\ y % 100 # 0) \/ y % 400 = 0

DaysInMonth(m, y) ==
    IF m = 2 THEN (IF IsLeap(y) THEN 29 ELSE 28)
    ELSE IF m \in {4, 6, 9, 11} THEN 30 ELSE 31

\* the regular expression of line 51 finds "<letters> <1-2 digits>[,] <4 digits>"
DateMatch(text) == text.kind = "date"

\* strptime raises ValueError on a word that is no month name, a day outside
\* 1..31 or beyond the month's length, and on year 0
StrpTime(text) ==
    LET m == MonthNumber(text.word) IN
    IF m = 0 \/ text.day < 1 \/ text.year < 1 \/ text.day > DaysInMonth(m, text.year)
    THEN [ok |-> FALSE, year |-> 0, month |-> 0, day |-> 0]
    ELSE [ok |-> TRUE, year |-> text.year, month |-> m, day |-> text.day]

\* dt.strftime("%Y-%m-%d")
StrfTime(dt) == <<dt.year, dt.month, dt.day>>

(***************************************************************************)
(* URLs.                                                                   *)
(***************************************************************************)
BaseUrl == << <<"https:", "sfbos", "org">>, <<"meetings">>, <<"land-use-and-transportation-committee">> >>

\* requests.compat.urljoin(base_url, href): a relative href replaces the last
\* segment of the base, an absolute one stands for itself
UrlJoin(base, href) ==
    IF href.abs THEN href.segs ELSE Front(base) \o href.segs

(***************************************************************************)
(* The listing page: texts, anchors, cells, rows.                          *)
(***************************************************************************)
NoText == [kind |-> "other", word |-> "", day |-> 0, year |-> 0]

DateText(w, d, y) == [kind |-> "date", word |-> w, day |-> d, year |-> y]

Rel(segs) == [abs |-> FALSE, segs |-> segs]

AgendaHref == Rel(<< <<"agenda", "pdf">> >>)

MinutesHref == Rel(<< <<"files">>, <<"minutes", "PDF">> >>)

DraftHref == [abs |-> TRUE, segs |-> << <<"https:", "example", "test">>, <<"draft", "pdf">> >>]

HtmlHref == Rel(<< <<"notes", "html">> >>)

Cell(text, anchors) == [text |-> text, anchors |-> anchors]

\* first cells: no date, a date below either floor, a date in the later floor
\* year, a day the month does not have
DateTexts ==
    {NoText, DateText("March", 1, 2017), DateText("June", 15, 2019),
     DateText("February", 30, 2019)}

AgendaCells == {Cell(NoText, <<>>), Cell(NoText, <<AgendaHref>>)}

MinutesCells == {Cell(NoText, <<>>), Cell(NoText, <<HtmlHref, MinutesHref, DraftHref>>)}

\* a header row (th cells only), a two-cell row, and the three-cell rows
HeaderRow == <<>>

ShortRow == <<Cell(DateText("June", 15, 2019), <<>>), Cell(NoText, <<AgendaHref>>)>>

FullRows ==
    {<<Cell(t, <<>>), a, m>> : t \in DateTexts, a \in AgendaCells, m \in MinutesCells}

Rows == {HeaderRow, ShortRow} \cup FullRows

\* a page without a table
NoPage == [table |-> FALSE, trs |-> <<>>]

RECURSIVE SeqsUpTo(_, _)
SeqsUpTo(S, n) ==
    IF n = 0 THEN {<<>>}
    ELSE LET shorter == SeqsUpTo(S, n - 1) IN
         shorter \cup {Append(s, x) : s \in {t \in shorter : Len(t) = n - 1}, x \in S}

Pages ==
    {NoPage}
        \cup {[table |-> TRUE, trs |-> trs] : trs \in SeqsUpTo(Rows, MaxTrs)}

DocTypes == {"minutes", "agenda"}

SinceYears == {2018, 2019}

Configs == [since_year : SinceYears, doc_type : DocTypes]

(***************************************************************************)
(* fetch_listing (sfbos_extractor.py).                                     *)
(***************************************************************************)
\* file_td.find("a", href=re.compile(r"\.pdf$", re.I)): the first matching anchor
PdfAnchors(cell) == SelectSeq(cell.anchors, LAMBDA h : HasPdfSuffix(Last(h.segs)))

\* a floor that leaves the floor year itself out
BelowFloorExclusive(dt, c) == dt.year <= c.since_year

\* the columns the wrong way round
FileTdSwapped(cols, c) == IF Lower(c.doc_type) = "minutes" THEN cols[2] ELSE cols[3]

\* the year floor of line 55: rows of earlier years are skipped
BelowFloor(dt, c) == dt.year < c.since_year

\* the cell of line 57
FileTd(cols, c) == IF Lower(c.doc_type) = "minutes" THEN cols[3] ELSE cols[2]

\* one pass of the loop body (lines 47-65) over a row: the entries it appends,
\* or the ValueError strptime raises
RowStep(base_url, row, c) ==
    LET cols == row
        skip == [raised |-> FALSE, entries |-> <<>>]
    IN
    IF Len(cols) < 3 THEN skip
    ELSE IF ~DateMatch(cols[1].text) THEN skip
    ELSE LET dt == StrpTime(cols[1].text) IN
         IF ~dt.ok THEN [raised |-> TRUE, entries |-> <<>>]
         ELSE IF BelowFloor(dt, c) THEN skip
         ELSE LET links == PdfAnchors(FileTd(cols, c)) IN
              IF links = <<>> THEN skip
              ELSE [raised |-> FALSE,
                    entries |-> << <<StrfTime(dt), UrlJoin(base_url, links[1])>> >>]

\* the loop of lines 46-66 from row i on
RECURSIVE ScanRows(_, _, _, _, _)
ScanRows(base_url, rows, i, c, out) ==
    IF i > Len(rows) THEN [status |-> "ok", out |-> out]
    ELSE LET step == RowStep(base_url, rows[i], c) IN
         IF step.raised THEN [status |-> "ValueError", out |-> <<>>]
         ELSE ScanRows(base_url, rows, i + 1, c, out \o step.entries)

\* table.find_all("tr")[1:]
DataRows(pg) == IF Len(pg.trs) = 0 THEN <<>> ELSE SubSeq(pg.trs, 2, Len(pg.trs))

HttpOutcomes == {"ok", "http_error", "network_error"}

\* fetch_listing(base_url, cfg) when the GET ends in resp and the body is pg
fetch_listing(base_url, c, resp, pg) ==
    IF resp # "ok" THEN [status |-> "RequestError", out |-> <<>>]
    ELSE IF ~pg.table THEN [status |-> "ok", out |-> <<>>]
    ELSE ScanRows(base_url, DataRows(pg), 1, c, <<>>)

Pending == [status |-> "pending", out |-> <<>>]

\* FetchConfig() with its defaults (lines 18-19)
DefaultConfig == [since_year |-> 2018, doc_type |-> "minutes"]

\* the parts of the state a specification does not use, at rest
ListingIdle == page = NoPage /\ cfg = DefaultConfig /\ listing = Pending

FsEmpty == disk = {} /\ dirs = {} /\ writes = 0 /\ gets = 0 /\ calls = <<>>

MetaIdle == pdf = None /\ plumber = TRUE /\ rec = None /\ line = None

IdleProc ==
    [cmd |-> "none", pc |-> "idle", site |-> "", doc_type |-> None, items |-> <<>>,
     idx |-> 0, net |-> <<>>, err |-> "none", before |-> None]

CliIdle == proc = IdleProc /\ outfile = None /\ runs = 0

(***************************************************************************)
(* Specification of the listing extractor: a page and a configuration are  *)
(* drawn, then fetch_listing is called once.                               *)
(***************************************************************************)
InitListing ==
    /\ page \in Pages
    /\ cfg \in Configs
    /\ listing = Pending
    /\ FsEmpty
    /\ MetaIdle
    /\ CliIdle

FetchListingOk ==
    /\ listing.status = "pending"
    /\ gets' = gets + 1
    /\ listing' = fetch_listing(BaseUrl, cfg, "ok", page)
    /\ UNCHANGED <<page, cfg, fsVars, calls, metaVars, cliVars>>

FetchListingFails ==
    /\ listing.status = "pending"
    /\ \E resp \in HttpOutcomes \ {"ok"} :
        listing' = fetch_listing(BaseUrl, cfg, resp, page)
    /\ gets' = gets + 1
    /\ UNCHANGED <<page, cfg, fsVars, calls, metaVars, cliVars>>

NextListing == FetchListingOk \/ FetchListingFails

SpecListing == InitListing /\ [][NextListing]_vars

(***************************************************************************)
(* download_pdf (sfbos_extractor.py).                                      *)
(***************************************************************************)
\* The bytes of a file, seen as pdfplumber sees them: whether they open as a
\* PDF, and the pages; a page's text is a sequence of lines of words, None, or
\* an error raised by extract_text.
Pdf(size, opens, pages) == [size |-> size, opens |-> opens, pages |-> pages]

TextPage(lines) == [kind |-> "text", lines |-> lines]

BrokenPage == [kind |-> "error", lines |-> <<>>]

BlankPage == [kind |-> "none", lines |-> <<>>]

MinutesPage == TextPage(<< <<"City", "Hall">>, <<"Regular", "Meeting", "Minutes">>, <<"Agenda", "items">> >>)

RollCallPage == TextPage(<< <<"Roll", "call">> >>)

EmptyBody == Pdf(0, FALSE, <<>>)

\* the bodies a server may send for a PDF: a two-page document, one without pages
Bodies == {Pdf(2048, TRUE, <<MinutesPage, RollCallPage>>), Pdf(512, TRUE, <<>>)}

File(dir, name, body) == [dir |-> dir, name |-> name, body |-> body]

\* path.exists()
Exists(fs, dir, name) == \E f \in fs : f.dir = dir /\ f.name = name

\* lines 71-74: the last segment of the URL, with ".pdf" appended when it lacks it
DerivedName(url) ==
    LET name == Last(url) IN
    IF ~HasPdfSuffix(name) THEN Append(name, "pdf") ELSE name

\* a check that never finds the file
NeverCached(fs, dir, name) == FALSE

\* lines 76-77: an existing file is returned without a request
Cached(fs, dir, name) == Exists(fs, dir, name)

\* the file opened for writing before the status is checked
DiskAfterGetOpenFirst(fs, dir, name, resp, body) ==
    {f \in fs : ~(f.dir = dir /\ f.name = name)}
        \cup {File(dir, name, IF resp = "ok" THEN body ELSE EmptyBody)}

\* lines 78-81: requests.get and raise_for_status raise before the file is
\* opened; a successful response is written whole
DiskAfterGet(fs, dir, name, resp, body) ==
    IF resp # "ok" THEN fs
    ELSE {f \in fs : ~(f.dir = dir /\ f.name = name)} \cup {File(dir, name, body)}

\* download_pdf(url, dest_dir) on the file system fs when the GET, if one is
\* issued, ends in resp with the given body: the outcome and the effects
download_pdf(url, dest_dir, resp, body, fs, ds) ==
    LET name == DerivedName(url)
        path == <<dest_dir, name>>
    IN
    IF Cached(fs, dest_dir, name)
    THEN [status |-> "returned", path |-> path, disk |-> fs,
          dirs |-> ds \cup {dest_dir}, gets |-> 0, writes |-> 0]
    ELSE LET after == DiskAfterGet(fs, dest_dir, name, resp, body) IN
         [status |-> IF resp = "ok" THEN "returned" ELSE "RequestError",
          path |-> path, disk |-> after, dirs |-> ds \cup {dest_dir},
          gets |-> 1, writes |-> IF resp = "ok" THEN 1 ELSE 0]

(***************************************************************************)
(* Specification of PDF acquisition: download_pdf is called up to MaxCalls *)
(* times with URLs and directories of the caller's choice.                 *)
(***************************************************************************)
\* agenda.pdf, files/agenda (no suffix: saved as agenda.pdf too), files/minutes.PDF
DownloadUrls ==
    {UrlJoin(BaseUrl, AgendaHref),
     UrlJoin(BaseUrl, Rel(<< <<"files">>, <<"agenda">> >>)),
     UrlJoin(BaseUrl, MinutesHref)}

DestDirs == {"pdfs", "mirror"}

InitDownload == ListingIdle /\ FsEmpty /\ MetaIdle /\ CliIdle

\* one call; the log keeps what an observer of the call sees
DownloadCall(url, dest_dir, resp, body) ==
    /\ Len(calls) < MaxCalls
    /\ LET r == download_pdf(url, dest_dir, resp, body, disk, dirs) IN
        /\ disk' = r.disk
        /\ dirs' = r.dirs
        /\ gets' = gets + r.gets
        /\ writes' = writes + r.writes
        /\ calls' = Append(calls,
                [url |-> url, dir |-> dest_dir, status |-> r.status, path |-> r.path,
                 gets |-> r.gets, wrote |-> r.writes = 1 \/ disk' # disk,
                 existed |-> Exists(disk, r.path[1], r.path[2]),
                 exists |-> Exists(disk', r.path[1], r.path[2])])
    /\ UNCHANGED <<listingVars, metaVars, cliVars>>

DownloadSucceeds == \E u \in DownloadUrls, d \in DestDirs, b \in Bodies : DownloadCall(u, d, "ok", b)

DownloadFails ==
    \E u \in DownloadUrls, d \in DestDirs, resp \in HttpOutcomes \ {"ok"} :
        DownloadCall(u, d, resp, EmptyBody)

NextDownload == DownloadSucceeds \/ DownloadFails

SpecDownload == InitDownload /\ [][NextDownload]_vars

(***************************************************************************)
(* extract_metadata (sfbos_extractor.py) and the DocRecord (models.py).    *)
(***************************************************************************)
\* _sha256_file: the hex digest is a string that is a function of the bytes alone
Sha256(body) == <<ToString(body)>>

\* re.search(r"(?:Meeting|Agenda).*", first_text, re.I): the words of the first
\* line holding "meeting" or "agenda" in any case, from that word to the line's
\* end; None without a match
IsTitleWord(w) ==
    w \in {"Meeting", "meeting", "MEETING", "Agenda", "agenda", "AGENDA"}

TitleIn(ln) ==
    LET hits == {k \in 1..Len(ln) : IsTitleWord(ln[k])} IN
    IF hits = {} THEN None
    ELSE Some(SubSeq(ln, CHOOSE k \in hits : \A j \in hits : k <= j, Len(ln)))

RECURSIVE SniffTitle(_, _)
SniffTitle(lines, i) ==
    IF i > Len(lines) THEN None
    ELSE IF TitleIn(lines[i]) # None THEN TitleIn(lines[i])
    ELSE SniffTitle(lines, i + 1)

\* lines 89-100: page_count and title as the try block leaves them.  Each
\* assignment made before an exception stays made.
Introspect(body, canImport) ==
    LET unset == [page_count |-> None, title |-> None] IN
    IF ~canImport THEN unset                           \* import pdfplumber raises
    ELSE IF ~body.opens THEN unset                     \* pdfplumber.open raises
    ELSE LET counted == [unset EXCEPT !.page_count = Some(Len(body.pages))] IN
         IF Len(body.pages) = 0 THEN counted           \* pdf.pages[0]: IndexError
         ELSE IF body.pages[1].kind = "error" THEN counted   \* extract_text raises
         ELSE LET first_text == IF body.pages[1].kind = "none" THEN <<>>
                                ELSE body.pages[1].lines IN
              [counted EXCEPT !.title = SniffTitle(first_text, 1)]

\* ExtractedPayload, ExtractorMeta and DocRecord with their defaults (models.py)
ExtractedPayload(title, items) == [title |-> title, items |-> items]

ExtractorMeta == [name |-> "civic-ingest", version |-> "0.1.0"]

DocRecord(source_url, doc_type, committee, sha, file_size, page_count, extracted, now) ==
    [source_url |-> source_url, doc_type |-> doc_type, committee |-> committee,
     meeting_date |-> None, sha256 |-> sha, mime |-> "application/pdf",
     file_size |-> file_size, page_count |-> page_count, extracted |-> extracted,
     extracted_at |-> now, extractor |-> ExtractorMeta]

\* extract_metadata(pdf_path, source_url, committee, doc_type) on a readable file
extract_metadata(file, source_url, committee, doc_type, canImport, now) ==
    LET sha == Sha256(file.body)
        size == file.body.size
        got == Introspect(file.body, canImport)
    IN DocRecord(source_url, doc_type, committee, sha, Some(size), got.page_count,
                 ExtractedPayload(got.title, <<>>), now)

\* datetime.utcnow() at record construction
Times == {0, 1}

(***************************************************************************)
(* Specification of the metadata builder: a file is drawn, with pdfplumber *)
(* installed or not, and extract_metadata is called on it once.            *)
(***************************************************************************)
PageTexts == {BrokenPage, BlankPage, MinutesPage, RollCallPage}

PdfBodies ==
    {EmptyBody} \cup {Pdf(1024, TRUE, pages) : pages \in SeqsUpTo(PageTexts, MaxPages)}

\* f"file://{pdf}": strings are sequences of glyphs (a character, or a run of
\* characters none of which JSON escapes)
RECURSIVE Dotted(_)
Dotted(name) ==
    IF Len(name) <= 1 THEN name
    ELSE <<name[1], ".">> \o Dotted(SubSeq(name, 2, Len(name)))

SourceUrl(file) == <<"file://", file.dir, "/">> \o Dotted(file.name)

LutCommittee == <<"Land Use and Transportation">>

InitMeta ==
    /\ ListingIdle /\ FsEmpty /\ CliIdle
    /\ pdf \in {Some(File("pdfs", <<"minutes", "pdf">>, b)) : b \in PdfBodies}
    /\ plumber \in BOOLEAN
    /\ rec = None
    /\ line = None

ExtractMetadata ==
    /\ rec = None
    /\ \E doc_type \in DocTypes, now \in Times :
        rec' = Some(extract_metadata(pdf[1], SourceUrl(pdf[1]), Some(LutCommittee),
                                     doc_type, plumber, now))
    /\ UNCHANGED <<listingVars, fsVars, gets, calls, pdf, plumber, line, cliVars>>

NextMeta == ExtractMetadata

SpecMeta == InitMeta /\ [][NextMeta]_vars

(***************************************************************************)
(* to_jsonl_line (models.py): record.model_dump_json(), the compact JSON   *)
(* text of the record, as a sequence of glyphs.                            *)
(***************************************************************************)
Quote == "\""

Backslash == "\\"

Newline == "\n"

\* a string written without escaping
JsonStringRaw(str) == <<Quote>> \o str \o <<Quote>>

\* the JSON escape of one glyph
EscapeGlyph(g) ==
    IF g = Quote THEN <<Backslash, Quote>>
    ELSE IF g = Backslash THEN <<Backslash, Backslash>>
    ELSE IF g = Newline THEN <<Backslash, "n">>
    ELSE <<g>>

RECURSIVE Escaped(_)
Escaped(str) ==
    IF str = <<>> THEN <<>> ELSE EscapeGlyph(str[1]) \o Escaped(SubSeq(str, 2, Len(str)))

\* a JSON string: the escaped glyphs between quotes
JsonString(str) == <<Quote>> \o Escaped(str) \o <<Quote>>

Digit(d) == CASE d = 0 -> "0" [] d = 1 -> "1" [] d = 2 -> "2" [] d = 3 -> "3" [] d = 4 -> "4"
              [] d = 5 -> "5" [] d = 6 -> "6" [] d = 7 -> "7" [] d = 8 -> "8" [] d = 9 -> "9"

RECURSIVE Digits(_)
Digits(n) == IF n < 10 THEN <<Digit(n)>> ELSE Append(Digits(n \div 10), Digit(n % 10))

JsonInt(n) == IF n < 0 THEN <<"-">> \o Digits(0 - n) ELSE Digits(n)

JsonNull == <<"null">>

JsonKey(k) == <<Quote, k, Quote, ":">>

JsonItem(item) ==
    <<"{">> \o JsonKey("position") \o JsonInt(item.position) \o <<",">>
        \o JsonKey("title") \o JsonString(item.title) \o <<"}">>

RECURSIVE JsonItemsFrom(_, _)
JsonItemsFrom(items, i) ==
    IF i > Len(items) THEN <<>>
    ELSE (IF i > 1 THEN <<",">> ELSE <<>>) \o JsonItem(items[i]) \o JsonItemsFrom(items, i + 1)

JsonPayload(e) ==
    <<"{">> \o JsonKey("title")
        \o (IF e.title = None THEN JsonNull ELSE JsonString(e.title[1])) \o <<",">>
        \o JsonKey("items") \o <<"[">> \o JsonItemsFrom(e.items, 1) \o <<"]">> \o <<"}">>

\* datetime as ISO-8601 text
IsoTime(t) == <<"2024-01-01T00:00:0", Digit(t)>>

\* the fields in declaration order (lines 23-35)
to_jsonl_line(record) ==
    <<"{">>
        \o JsonKey("source_url") \o JsonString(record.source_url) \o <<",">>
        \o JsonKey("doc_type") \o JsonString(<<record.doc_type>>) \o <<",">>
        \o JsonKey("committee")
        \o (IF record.committee = None THEN JsonNull ELSE JsonString(record.committee[1]))
        \o <<",">>
        \o JsonKey("meeting_date") \o JsonNull \o <<",">>
        \o JsonKey("sha256") \o JsonString(record.sha256) \o <<",">>
        \o JsonKey("mime") \o JsonString(<<record.mime>>) \o <<",">>
        \o JsonKey("file_size")
        \o (IF record.file_size = None THEN JsonNull ELSE JsonInt(record.file_size[1]))
        \o <<",">>
        \o JsonKey("page_count")
        \o (IF record.page_count = None THEN JsonNull ELSE JsonInt(record.page_count[1]))
        \o <<",">>
        \o JsonKey("extracted") \o JsonPayload(record.extracted) \o <<",">>
        \o JsonKey("extracted_at") \o JsonString(IsoTime(record.extracted_at)) \o <<",">>
        \o JsonKey("extractor") \o <<"{">>
        \o JsonKey("name") \o JsonString(<<record.extractor.name>>) \o <<",">>
        \o JsonKey("version") \o JsonString(<<record.extractor.version>>) \o <<"}">>
        \o <<"}">>

(***************************************************************************)
(* Specification of the serialisation: a valid DocRecord is drawn and      *)
(* to_jsonl_line is called on it once.                                     *)
(***************************************************************************)
Glyphs == {"n", Quote, Backslash, Newline}

Strings == SeqsUpTo(Glyphs, MaxStrLen)

ItemTitles == {<<"Call to order">>, <<Newline, Quote, Backslash, "n">>}

Positions == {1, 10, -7}

ExtractedItems == [position : Positions, title : ItemTitles]

\* the record of test_jsonl_roundtrip_minimal, with the title and the items varied
JsonRecords ==
    {DocRecord(<<"https://example.test/x.pdf">>, "minutes", Some(<<"Test Committee">>),
               <<"abc123">>, Some(123), Some(1), ExtractedPayload(title, items), 0) :
        title \in {None} \cup {Some(str) : str \in Strings},
        items \in SeqsUpTo(ExtractedItems, MaxItems)}

InitJson ==
    /\ ListingIdle /\ FsEmpty /\ CliIdle
    /\ pdf = None /\ plumber = TRUE
    /\ rec \in {Some(r) : r \in JsonRecords}
    /\ line = None

ToJsonlLine ==
    /\ line = None
    /\ line' = Some(to_jsonl_line(rec[1]))
    /\ UNCHANGED <<listingVars, fsVars, gets, calls, pdf, plumber, rec, cliVars>>

NextJson == ToJsonlLine

SpecJson == InitJson /\ [][NextJson]_vars

(***************************************************************************)
(* The site registry (sites.py).                                           *)
(***************************************************************************)
SITES ==
    << [key |-> "sfbos_lut",
        name |-> "SF Board of Supervisors - Land Use and Transportation",
        base_url |-> BaseUrl,
        committee |-> LutCommittee,
        default_doc_type |-> "minutes"] >>

\* a lookup that falls back to the first site
get_site_or_first(key) == [found |-> TRUE, site |-> SITES[1]]

\* get_site(key): the first site with the key; KeyError (found = FALSE) without one
get_site(key) ==
    IF \E i \in 1..Len(SITES) : SITES[i].key = key
    THEN [found |-> TRUE,
          site |-> SITES[CHOOSE i \in 1..Len(SITES) :
                            /\ SITES[i].key = key
                            /\ \A j \in 1..(i - 1) : SITES[j].key # key]]
    ELSE [found |-> FALSE, site |-> SITES[1]]

(***************************************************************************)
(* The commands (cli.py).  One command runs at a time; the PDFs and the    *)
(* output file outlive it.  fetch writes to the directory "pdfs", extract  *)
(* reads it and writes out/records.jsonl.                                  *)
(***************************************************************************)
PdfDir == "pdfs"

OutDir == "out"

SiteKeys == {"sfbos_lut", "sfbos_budget"}

\* what the server sends for a URL
ServedBody(url) ==
    IF Last(url) = <<"agenda", "pdf">>
    THEN Pdf(512, TRUE, <<>>)
    ELSE Pdf(2048, TRUE, <<MinutesPage, RollCallPage>>)

Snapshot == [outfile |-> outfile, disk |-> disk, dirs |-> dirs, gets |-> gets]

\* cmd_fetch, lines 20-23: the site is resolved before anything else
FetchGetSite ==
    /\ proc.pc = "idle"
    /\ runs < MaxRuns
    /\ runs' = runs + 1
    /\ \E key \in SiteKeys, doc_type \in DocTypes, since_year \in {2018} :
        LET s == get_site(key)
            started == [IdleProc EXCEPT !.cmd = "fetch", !.site = key,
                                        !.doc_type = Some(doc_type),
                                        !.before = Some(Snapshot)]
        IN
        IF ~s.found
        THEN /\ proc' = [started EXCEPT !.pc = "failed", !.err = "KeyError"]
             /\ UNCHANGED cfg
        ELSE /\ proc' = [started EXCEPT !.pc = "listing"]
             /\ cfg' = [since_year |-> since_year, doc_type |-> doc_type]
    /\ UNCHANGED <<page, listing, fsVars, gets, calls, metaVars, outfile>>

\* line 24: items = fetch_listing(site.base_url, cfg)
FetchItems(resp) ==
    /\ proc.cmd = "fetch" /\ proc.pc = "listing"
    /\ LET base_url == get_site(proc.site).site.base_url
           r == fetch_listing(base_url, cfg, resp, page)
       IN
        /\ listing' = r
        /\ gets' = gets + 1
        /\ proc' = [proc EXCEPT
                !.net = Append(@, [url |-> base_url, item |-> 0]),
                !.pc = IF r.status = "ok" THEN "download" ELSE "failed",
                !.err = IF r.status = "ok" THEN "none" ELSE r.status,
                !.items = r.out,
                !.idx = 1]
    /\ UNCHANGED <<page, cfg, fsVars, calls, metaVars, outfile, runs>>

FetchListingCmdOk == FetchItems("ok")

FetchListingCmdFails == \E resp \in HttpOutcomes \ {"ok"} : FetchItems(resp)

\* a loop that goes on to the next item after a failed download
NextAfterDownloadLenient(status) == "download"

\* lines 26-28: an exception of download_pdf leaves the loop and the command
NextAfterDownload(status) == IF status = "returned" THEN "download" ELSE "failed"

\* lines 26-28, one item: path = download_pdf(url, out_dir)
FetchDownload(resp) ==
    /\ proc.cmd = "fetch" /\ proc.pc = "download"
    /\ proc.idx <= Len(proc.items)
    /\ LET url == proc.items[proc.idx][2]
           r == download_pdf(url, PdfDir, resp, ServedBody(url), disk, dirs)
       IN
        /\ r.gets = 0 => resp = "ok"
        /\ disk' = r.disk
        /\ dirs' = r.dirs
        /\ gets' = gets + r.gets
        /\ writes' = writes + r.writes
        /\ proc' = [proc EXCEPT
                !.net = IF r.gets = 1 THEN Append(@, [url |-> url, item |-> proc.idx]) ELSE @,
                !.pc = NextAfterDownload(r.status),
                !.err = IF r.status = "returned" THEN "none" ELSE r.status,
                !.idx = IF NextAfterDownload(r.status) = "download" THEN @ + 1 ELSE @]
    /\ UNCHANGED <<listingVars, calls, metaVars, outfile, runs>>

FetchDownloadOk == FetchDownload("ok")

FetchDownloadFails == \E resp \in HttpOutcomes \ {"ok"} : FetchDownload(resp)

\* line 29: return 0
FetchReturn ==
    /\ proc.cmd = "fetch" /\ proc.pc = "download"
    /\ proc.idx > Len(proc.items)
    /\ proc' = [proc EXCEPT !.pc = "done"]
    /\ UNCHANGED <<listingVars, fsVars, gets, calls, metaVars, outfile, runs>>

\* cmd_extract, line 33 (and 34-35, 37: the paths and the document type)
ExtractGetSite ==
    /\ proc.pc = "idle"
    /\ runs < MaxRuns
    /\ runs' = runs + 1
    /\ \E key \in SiteKeys, doc_type \in {None, Some("agenda")} :
        LET s == get_site(key)
            started == [IdleProc EXCEPT !.cmd = "extract", !.site = key,
                                        !.before = Some(Snapshot)]
        IN
        IF ~s.found
        THEN proc' = [started EXCEPT !.pc = "failed", !.err = "KeyError",
                                     !.doc_type = doc_type]
        ELSE proc' = [started EXCEPT
                !.pc = "open",
                !.doc_type = IF doc_type # None THEN doc_type
                             ELSE Some(s.site.default_doc_type)]
    /\ UNCHANGED <<listingVars, fsVars, gets, calls, metaVars, outfile>>

\* the names the model's files can have, in the order sorted() gives paths
SortedNames ==
    << <<"agenda", "pdf">>, <<"draft", "pdf">>, <<"minutes", "PDF">>, <<"minutes", "pdf">> >>

\* in_dir.glob("*.pdf"): the suffix is matched as written (POSIX)
GlobPdf(name) == Len(name) >= 2 /\ Last(name) = "pdf"

\* sorted(in_dir.glob("*.pdf"))
SortedPdfs(fs, dir) ==
    LET names == SelectSeq(SortedNames, LAMBDA n : GlobPdf(n) /\ Exists(fs, dir, n)) IN
    [i \in 1..Len(names) |-> CHOOSE f \in fs : f.dir = dir /\ f.name = names[i]]

\* an output file opened for appending
OpenedAppending(old) == IF old = None THEN Some(<<>>) ELSE old

\* out_path.open("w"): the file is created, or cut to nothing
Opened(old) == Some(<<>>)

\* lines 36, 39-40: the parent directory, the output file, the files to read
ExtractOpen ==
    /\ proc.cmd = "extract" /\ proc.pc = "open"
    /\ dirs' = dirs \cup {OutDir}
    /\ outfile' = Opened(outfile)
    /\ writes' = writes + 1
    /\ proc' = [proc EXCEPT !.pc = "records", !.items = SortedPdfs(disk, PdfDir), !.idx = 1]
    /\ UNCHANGED <<listingVars, disk, gets, calls, metaVars, runs>>

\* lines 41-43, one file
ExtractRecord ==
    /\ proc.cmd = "extract" /\ proc.pc = "records"
    /\ proc.idx <= Len(proc.items)
    /\ LET file == proc.items[proc.idx]
           site == get_site(proc.site).site
           r == extract_metadata(file, SourceUrl(file), Some(site.committee),
                                 proc.doc_type[1], plumber, runs % 2)
       IN outfile' = Some(Append(outfile[1], to_jsonl_line(r)))
    /\ proc' = [proc EXCEPT !.idx = @ + 1]
    /\ UNCHANGED <<listingVars, fsVars, gets, calls, metaVars, runs>>

\* lines 44-45: the file is closed, return 0
ExtractReturn ==
    /\ proc.cmd = "extract" /\ proc.pc = "records"
    /\ proc.idx > Len(proc.items)
    /\ proc' = [proc EXCEPT !.pc = "done"]
    /\ UNCHANGED <<listingVars, fsVars, gets, calls, metaVars, outfile, runs>>

\* the process ends; its locals are gone
Exit ==
    /\ proc.pc \in {"done", "failed"}
    /\ proc' = IdleProc
    /\ cfg' = DefaultConfig
    /\ listing' = Pending
    /\ UNCHANGED <<page, fsVars, gets, calls, metaVars, outfile, runs>>

\* the rows of the pages the commands meet: both links, an agenda link alone
\* (to another file), a date strptime rejects
CliRows ==
    {<<Cell(DateText("June", 15, 2019), <<>>), Cell(NoText, <<AgendaHref>>),
       Cell(NoText, <<HtmlHref, MinutesHref, DraftHref>>)>>,
     <<Cell(DateText("March", 1, 2019), <<>>), Cell(NoText, <<DraftHref>>),
       Cell(NoText, <<>>)>>,
     <<Cell(DateText("February", 30, 2019), <<>>), Cell(NoText, <<AgendaHref>>),
       Cell(NoText, <<>>)>>}

CliPages ==
    {NoPage} \cup {[table |-> TRUE, trs |-> <<HeaderRow>> \o rows] :
                        rows \in SeqsUpTo(CliRows, MaxListed)}

InitCli ==
    /\ page \in CliPages
    /\ cfg = DefaultConfig
    /\ listing = Pending
    /\ FsEmpty
    /\ pdf = None /\ plumber \in BOOLEAN /\ rec = None /\ line = None
    /\ CliIdle

NextCli ==
    \/ FetchGetSite
    \/ FetchListingCmdOk
    \/ FetchListingCmdFails
    \/ FetchDownloadOk
    \/ FetchDownloadFails
    \/ FetchReturn
    \/ ExtractGetSite
    \/ ExtractOpen
    \/ ExtractRecord
    \/ ExtractReturn
    \/ Exit

SpecCli == InitCli /\ [][NextCli]_vars

(***************************************************************************)
(* Claims about the listing extractor, checked under SpecListing.          *)
(***************************************************************************)
Returned == listing.status = "ok"

\* the rows after the header row
RowsAfterHeader == [i \in 1..(Len(page.trs) - 1) |-> page.trs[i + 1]]

\* a row's first cell names a real calendar date "Month Day, Year"
ParseableDate(row) ==
    /\ row[1].text.kind = "date"
    /\ \E k \in 1..12 :
        /\ MonthNames[k] = row[1].text.word
        /\ row[1].text.day \in 1..DaysInMonth(k, row[1].text.year)

\* the cell the claims say is selected: index 2 (third) for minutes, 1 (second) for agenda
ClaimedCell(row) == IF cfg.doc_type = "minutes" THEN row[3] ELSE row[2]

OtherCell(row) == IF cfg.doc_type = "minutes" THEN row[2] ELSE row[3]

PdfIndexes(cell) ==
    {i \in 1..Len(cell.anchors) : Lower(Last(cell.anchors[i].segs)[Len(Last(cell.anchors[i].segs))]) = "pdf"}

HasPdfLink(cell) == PdfIndexes(cell) # {}

FirstPdfLink(cell) ==
    cell.anchors[CHOOSE i \in PdfIndexes(cell) : \A j \in PdfIndexes(cell) : i <= j]

\* at least 3 cells, a parseable date, a .pdf link in the selected cell
WellFormedRow(row) ==
    /\ Len(row) >= 3
    /\ ParseableDate(row)
    /\ HasPdfLink(ClaimedCell(row))

\* a row that names no malformed content: it is well formed, or skipped quietly
AtOrAboveFloor(row) == row[1].text.year >= cfg.since_year

QualifyingRows == SelectSeq(RowsAfterHeader, LAMBDA r : WellFormedRow(r) /\ AtOrAboveFloor(r))

\* C2: fetch_listing never raises because of row content: whenever the GET
\* succeeds the call returns, and the rows with fewer than 3 cells, without a
\* parseable date or without a .pdf link in the selected cell contribute nothing
\* while the remaining rows are still processed (one entry per qualifying row).
C2_MalformedRowsNeverRaise ==
    listing.status \notin {"pending", "RequestError"} =>
        /\ listing.status = "ok"
        /\ Len(listing.out) = Len(QualifyingRows)

\* C7: the year floor is inclusive: every returned entry is dated in a year
\* >= since_year, and the returned dates are exactly those of the well-formed
\* rows after the header whose year is >= since_year, in table order.
C7_YearFloorInclusive ==
    Returned =>
        /\ \A i \in 1..Len(listing.out) : listing.out[i][1][1] >= cfg.since_year
        /\ Len(listing.out) = Len(QualifyingRows)
        /\ \A i \in 1..Len(QualifyingRows) :
            /\ i <= Len(listing.out)
            /\ listing.out[i][1][1] = QualifyingRows[i][1].text.year
            /\ MonthNames[listing.out[i][1][2]] = QualifyingRows[i][1].text.word
            /\ listing.out[i][1][3] = QualifyingRows[i][1].text.day

\* a returned listing holding a row dated in the floor year itself, with a row
\* of an earlier year left out
C7_Witness ==
    /\ Returned
    /\ \E i \in 1..Len(listing.out) : listing.out[i][1][1] = cfg.since_year
    /\ \E i \in 1..Len(RowsAfterHeader) :
        /\ WellFormedRow(RowsAfterHeader[i])
        /\ ~AtOrAboveFloor(RowsAfterHeader[i])

\* C8: the link column follows the document type: the URLs returned are, row by
\* qualifying row, the first .pdf link of the third cell for "minutes" and of the
\* second cell for "agenda", resolved against the base URL; a row whose selected
\* cell has no .pdf link yields nothing, whatever the other cell holds.
C8_ColumnByDocType ==
    Returned =>
        /\ Len(listing.out) = Len(QualifyingRows)
        /\ \A i \in 1..Len(QualifyingRows) :
            /\ i <= Len(listing.out)
            /\ LET link == FirstPdfLink(ClaimedCell(QualifyingRows[i])) IN
               listing.out[i][2] =
                    IF link.abs THEN link.segs
                    ELSE SubSeq(BaseUrl, 1, Len(BaseUrl) - 1) \o link.segs

\* a returned listing with an entry from a row that has .pdf links in both
\* cells, and a row dropped although its other cell has a .pdf link
C8_Witness ==
    /\ Returned
    /\ listing.out # <<>>
    /\ \E i \in 1..Len(QualifyingRows) : HasPdfLink(OtherCell(QualifyingRows[i]))
    /\ \E i \in 1..Len(RowsAfterHeader) :
        LET r == RowsAfterHeader[i] IN
        /\ Len(r) >= 3 /\ ParseableDate(r) /\ AtOrAboveFloor(r)
        /\ ~HasPdfLink(ClaimedCell(r))
        /\ HasPdfLink(OtherCell(r))

(***************************************************************************)
(* Claims about PDF acquisition, checked under SpecDownload.               *)
(***************************************************************************)
\* C1: two consecutive successful calls with the same URL and directory, made
\* when the derived file does not exist, perform exactly one GET in total: the
\* first fetches and writes the file, the second returns the same path without
\* a request and without writing.
C1_SecondCallIsCached ==
    \A i \in 1..(Len(calls) - 1) :
        (/\ calls[i].url = calls[i + 1].url
         /\ calls[i].dir = calls[i + 1].dir
         /\ ~calls[i].existed
         /\ calls[i].status = "returned"
         /\ calls[i + 1].status = "returned")
        => /\ calls[i].gets = 1 /\ calls[i].wrote /\ calls[i].exists
           /\ calls[i + 1].gets = 0 /\ ~calls[i + 1].wrote
           /\ calls[i + 1].path = calls[i].path
           /\ calls[i].gets + calls[i + 1].gets = 1

\* two successful calls in a row for the same URL and directory, the first
\* finding no file
C1_Witness ==
    \E i \in 1..(Len(calls) - 1) :
        /\ calls[i].url = calls[i + 1].url /\ calls[i].dir = calls[i + 1].dir
        /\ ~calls[i].existed
        /\ calls[i].status = "returned" /\ calls[i + 1].status = "returned"

\* C10: a call whose GET fails creates no file at the derived path and writes
\* nothing, so the next call with the same URL and directory issues a request
\* again instead of returning the path of a missing or empty file.
C10_FailedDownloadLeavesNoFile ==
    \A i \in 1..Len(calls) :
        calls[i].status = "RequestError" =>
            /\ calls[i].gets = 1
            /\ ~calls[i].exists /\ ~calls[i].wrote
            /\ (i < Len(calls) /\ calls[i + 1].url = calls[i].url /\ calls[i + 1].dir = calls[i].dir)
                => calls[i + 1].gets = 1

\* a failed call followed by a call for the same URL and directory
C10_Witness ==
    \E i \in 1..(Len(calls) - 1) :
        /\ calls[i].status = "RequestError"
        /\ calls[i + 1].url = calls[i].url /\ calls[i + 1].dir = calls[i].dir
        /\ calls[i + 1].status = "returned"

(***************************************************************************)
(* Claims about the metadata builder, checked under SpecMeta.              *)
(***************************************************************************)
\* a step of the introspection fails: pdfplumber is missing, the file does not
\* open, it has no first page, or the first page's text cannot be read
IntrospectionFails ==
    \/ ~plumber
    \/ ~pdf[1].body.opens
    \/ Len(pdf[1].body.pages) = 0
    \/ pdf[1].body.pages[1].kind = "error"

\* C4: extract_metadata returns a record for every readable file, and whenever
\* the introspection is missing or fails at any step, page_count and
\* extracted.title of the record are both unset.
C4_FailedIntrospectionLeavesBothUnset ==
    (rec # None /\ IntrospectionFails) =>
        /\ rec[1].page_count = None
        /\ rec[1].extracted.title = None

(***************************************************************************)
(* Claims about the serialisation, checked under SpecJson.  The line is    *)
(* read back by a JSON parser: json.loads on the glyphs.                   *)
(***************************************************************************)
JNull == [t |-> "null", v |-> <<>>]

ParseFail == [ok |-> FALSE, val |-> JNull, next |-> 0]

Parsed(val, next) == [ok |-> TRUE, val |-> val, next |-> next]

DigitGlyphs == {"0", "1", "2", "3", "4", "5", "6", "7", "8", "9"}

DigitValue(g) == CHOOSE d \in 0..9 : Digit(d) = g

\* the characters of a string from position i (after the opening quote) on
RECURSIVE ParseChars(_, _, _)
ParseChars(s, i, acc) ==
    IF i > Len(s) THEN ParseFail
    ELSE IF s[i] = Quote THEN Parsed([t |-> "str", v |-> acc], i + 1)
    ELSE IF s[i] = Newline THEN ParseFail
    ELSE IF s[i] = Backslash
         THEN IF i + 1 > Len(s) THEN ParseFail
              ELSE IF s[i + 1] = Quote THEN ParseChars(s, i + 2, Append(acc, Quote))
              ELSE IF s[i + 1] = Backslash THEN ParseChars(s, i + 2, Append(acc, Backslash))
              ELSE IF s[i + 1] = "n" THEN ParseChars(s, i + 2, Append(acc, Newline))
              ELSE ParseFail
    ELSE ParseChars(s, i + 1, Append(acc, s[i]))

RECURSIVE ParseDigits(_, _, _)
ParseDigits(s, i, acc) ==
    IF i <= Len(s) /\ s[i] \in DigitGlyphs
    THEN ParseDigits(s, i + 1, 10 * acc + DigitValue(s[i]))
    ELSE Parsed([t |-> "num", v |-> acc], i)

ParseNumber(s, i) ==
    IF s[i] = "-"
    THEN IF i + 1 <= Len(s) /\ s[i + 1] \in DigitGlyphs
         THEN LET n == ParseDigits(s, i + 1, 0) IN
              Parsed([t |-> "num", v |-> 0 - n.val.v], n.next)
         ELSE ParseFail
    ELSE ParseDigits(s, i, 0)

RECURSIVE ParseValue(_, _)
RECURSIVE ParseElements(_, _, _)
RECURSIVE ParseMembers(_, _, _)
ParseValue(s, i) ==
    IF i > Len(s) THEN ParseFail
    ELSE IF s[i] = Quote THEN ParseChars(s, i + 1, <<>>)
    ELSE IF s[i] = "null" THEN Parsed(JNull, i + 1)
    ELSE IF s[i] = "-" \/ s[i] \in DigitGlyphs THEN ParseNumber(s, i)
    ELSE IF s[i] = "["
         THEN IF i + 1 <= Len(s) /\ s[i + 1] = "]"
              THEN Parsed([t |-> "arr", v |-> <<>>], i + 2)
              ELSE ParseElements(s, i + 1, <<>>)
    ELSE IF s[i] = "{"
         THEN IF i + 1 <= Len(s) /\ s[i + 1] = "}"
              THEN Parsed([t |-> "obj", v |-> <<>>], i + 2)
              ELSE ParseMembers(s, i + 1, <<>>)
    ELSE ParseFail

ParseElements(s, i, acc) ==
    LET e == ParseValue(s, i) IN
    IF ~e.ok \/ e.next > Len(s) THEN ParseFail
    ELSE IF s[e.next] = "," THEN ParseElements(s, e.next + 1, Append(acc, e.val))
    ELSE IF s[e.next] = "]" THEN Parsed([t |-> "arr", v |-> Append(acc, e.val)], e.next + 1)
    ELSE ParseFail

ParseMembers(s, i, acc) ==
    IF i > Len(s) \/ s[i] # Quote THEN ParseFail
    ELSE LET k == ParseChars(s, i + 1, <<>>) IN
         IF ~k.ok \/ k.next > Len(s) \/ s[k.next] # ":" THEN ParseFail
         ELSE LET e == ParseValue(s, k.next + 1) IN
              IF ~e.ok \/ e.next > Len(s) THEN ParseFail
              ELSE IF s[e.next] = ","
                   THEN ParseMembers(s, e.next + 1, Append(acc, <<k.val.v, e.val>>))
              ELSE IF s[e.next] = "}"
                   THEN Parsed([t |-> "obj", v |-> Append(acc, <<k.val.v, e.val>>)], e.next + 1)
              ELSE ParseFail

\* json.loads(line): the whole text must be one value
JsonLoads(s) ==
    LET p == ParseValue(s, 1) IN
    IF p.ok /\ p.next = Len(s) + 1 THEN p ELSE ParseFail

HasKey(obj, k) == obj.t = "obj" /\ \E i \in 1..Len(obj.v) : obj.v[i][1] = <<k>>

Member(obj, k) == obj.v[CHOOSE i \in 1..Len(obj.v) : obj.v[i][1] = <<k>>][2]

\* a parsed string-or-null against an optional string of the record
SameOptionalString(val, opt) ==
    IF opt = None THEN val.t = "null" ELSE val.t = "str" /\ val.v = opt[1]

RoundTrip(obj, record) ==
    /\ \A k \in {"source_url", "doc_type", "sha256", "extracted"} : HasKey(obj, k)
    /\ LET e == Member(obj, "extracted") IN
        /\ HasKey(e, "title") /\ HasKey(e, "items")
        /\ SameOptionalString(Member(e, "title"), record.extracted.title)
        /\ Member(e, "items").t = "arr"
        /\ Len(Member(e, "items").v) = Len(record.extracted.items)
        /\ \A i \in 1..Len(record.extracted.items) :
            LET it == Member(e, "items").v[i] IN
            /\ HasKey(it, "position") /\ HasKey(it, "title")
            /\ Member(it, "position").t = "num"
            /\ Member(it, "position").v = record.extracted.items[i].position
            /\ Member(it, "title").t = "str"
            /\ Member(it, "title").v = record.extracted.items[i].title

C9_LineIsOneJsonObject ==
    line # None =>
        /\ \A i \in 1..Len(line[1]) : line[1][i] # Newline
        /\ JsonLoads(line[1]).ok
        /\ JsonLoads(line[1]).val.t = "obj"
        /\ RoundTrip(JsonLoads(line[1]).val, rec[1])

\* C9: for every valid DocRecord the line to_jsonl_line returns holds no newline
\* character and parses back as a JSON object with the keys source_url,
\* doc_type, sha256 and extracted, whose extracted.title and items (position and
\* title) equal the record's; and the call leaves the record unchanged.
C9_JsonlRoundTrip == []C9_LineIsOneJsonObject /\ [][rec' = rec]_vars

\* a serialised record whose title holds a newline or a quote and whose items
\* hold two entries
C9_Witness ==
    /\ line # None
    /\ rec[1].extracted.title # None
    /\ \E i \in 1..Len(rec[1].extracted.title[1]) :
        rec[1].extracted.title[1][i] \in {Newline, Quote}
    /\ Len(rec[1].extracted.items) >= 2

(***************************************************************************)
(* Claims about the commands, checked under SpecCli.                       *)
(***************************************************************************)
Running == proc.cmd \in {"fetch", "extract"}

KnownKeys == {SITES[i].key : i \in 1..Len(SITES)}

\* what the run has done so far to the world outside the process
RunGets == gets - proc.before[1].gets

Untouched ==
    /\ disk = proc.before[1].disk
    /\ dirs = proc.before[1].dirs
    /\ outfile = proc.before[1].outfile

\* C5: a fetch or extract command given a site key that is not in the registry
\* fails with the unknown-site error (KeyError) before any request: the run
\* issues no HTTP GET, before or after the failed lookup, and none of its later
\* steps runs (no directory, PDF or output file is touched).
C5_UnknownSiteFailsBeforeNetwork ==
    (Running /\ proc.site \notin KnownKeys) =>
        /\ proc.pc = "failed" /\ proc.err = "KeyError"
        /\ proc.net = <<>> /\ RunGets = 0
        /\ Untouched

\* an unknown key given to extract, after an earlier run that did use the network
C5_Witness ==
    /\ proc.cmd = "extract" /\ proc.err = "KeyError"
    /\ gets > 0 /\ disk # {}

\* the requests of a fetch run: the listing first and once, then items in
\* listing order, each at most once
FetchOrder ==
    /\ proc.pc \in {"download", "done"} => Len(proc.net) >= 1 /\ proc.items = listing.out
    /\ RunGets = Len(proc.net)
    /\ \A i \in 1..Len(proc.net) :
        /\ (i = 1) = (proc.net[i].item = 0)
        /\ i = 1 => proc.net[i].url = BaseUrl
        /\ i > 1 => /\ proc.net[i].item \in 1..Len(proc.items)
                    /\ proc.net[i].item <= proc.idx
                    /\ proc.net[i].url = proc.items[proc.net[i].item][2]
        /\ \A j \in 1..(i - 1) : proc.net[j].item < proc.net[i].item

\* a request error ends the run where it happens, with the earlier files on disk
AbortsAtFailure ==
    proc.err = "RequestError" =>
        /\ proc.pc = "failed"
        /\ Len(proc.net) >= 1
        /\ proc.items = <<>> => Len(proc.net) = 1
        /\ proc.items # <<>> =>
            /\ proc.net[Len(proc.net)].item = proc.idx
            /\ ~Exists(disk, PdfDir, DerivedName(proc.items[proc.idx][2]))
            /\ \A k \in 1..(proc.idx - 1) :
                Exists(disk, PdfDir, DerivedName(proc.items[k][2]))

C6_FetchInvariant == proc.cmd = "fetch" => FetchOrder /\ AbortsAtFailure

\* C6: the fetch command issues exactly one listing request, then downloads the
\* listed PDFs one at a time in listing order; a request error of the listing or
\* of the k-th download ends the command there: nothing is requested or
\* written afterwards, nothing is retried, and the files of items 1..k-1 stay.
C6_FetchSequentialAbort ==
    /\ []C6_FetchInvariant
    /\ [][(proc.cmd = "fetch" /\ proc.pc = "failed")
            => (gets' = gets /\ disk' = disk /\ writes' = writes)]_vars
    /\ [][\A f \in disk : f \in disk']_vars

\* the download of the second item fails after the first was fetched and written
C6_Witness ==
    /\ proc.cmd = "fetch" /\ proc.err = "RequestError"
    /\ proc.idx = 2 /\ Len(proc.net) = 3
    /\ Exists(disk, PdfDir, DerivedName(proc.items[1][2]))

ExtractDone == proc.cmd = "extract" /\ proc.pc = "done"

LinesBefore == IF proc.before[1].outfile = None THEN <<>> ELSE proc.before[1].outfile[1]

\* the .pdf files of the input directory
PdfFilesIn(dir) == {f \in disk : f.dir = dir /\ Len(f.name) >= 2 /\ f.name[Len(f.name)] = "pdf"}

\* the i-th line is a JSON object describing file f
LineDescribes(ln, f) ==
    /\ JsonLoads(ln).ok
    /\ HasKey(JsonLoads(ln).val, "source_url")
    /\ Member(JsonLoads(ln).val, "source_url").v = SourceUrl(f)

\* C3 as stated: the extract command appends: after a successful run the output
\* file holds what it held before the run, followed by exactly one JSON line per
\* .pdf file of the input directory; earlier lines are never removed.
C3_ExtractAppends ==
    ExtractDone =>
        /\ outfile # None
        /\ Len(outfile[1]) = Len(LinesBefore) + Cardinality(PdfFilesIn(PdfDir))
        /\ SubSeq(outfile[1], 1, Len(LinesBefore)) = LinesBefore

\* C3, amended: the extract command rewrites its output file: after a
\* successful run the file holds exactly one JSON line per .pdf file of the
\* input directory, in sorted file-name order, and nothing of what it held
\* before the run.
C3_ExtractRewrites ==
    ExtractDone =>
        /\ outfile # None
        /\ Len(outfile[1]) = Cardinality(PdfFilesIn(PdfDir))
        /\ \A f \in PdfFilesIn(PdfDir) :
            \E i \in 1..Len(outfile[1]) : LineDescribes(outfile[1][i], f)
        /\ \A i \in 1..Len(outfile[1]) :
            LineDescribes(outfile[1][i], SortedPdfs(disk, PdfDir)[i])

\* an extract run that ends over an output file an earlier run had filled
C3_Witness ==
    /\ ExtractDone
    /\ Len(LinesBefore) >= 1
    /\ Cardinality(PdfFilesIn(PdfDir)) >= 1

====
